---------------------------- MODULE Spec2Model ----------------------------
(***************************************************************************)
(* Container benchmark harness (bench.cpp, graphs.cpp) and the r_pow       *)
(* helper (r_pow.hpp).                                                     *)
(*                                                                         *)
(* An element is modelled by its identity field `a` (a natural number);    *)
(* the padding bytes and the string payload of the element types take no   *)
(* part in any comparison the policies make.  A container is a record      *)
(* [kind, elems]: kind "value" for a container object, "ptr" for a         *)
(* unique_ptr that owns one, "null" for a reset unique_ptr and "none"      *)
(* when no container is alive (between trials).  The model covers one      *)
(* instantiation bench<T>() of the suite: the statics of the policies are  *)
(* per Container type, so per shape for a fixed element type T.            *)
(***************************************************************************)
EXTENDS Integers, Sequences, FiniteSets, TLC

VARIABLES
    pc,          \* position in bench: idle, size, make, t0, run, t1, emit, crashed
    graph,       \* current_graph: the group name, or "null"
    results,     \* current_graph->results
    cfg,         \* template arguments and label of the running bench call
    sizes,       \* the initializer_list of the running bench call
    idx,         \* position of the size loop in sizes (1-based)
    rep,         \* the repetition counter i of the REPEAT loop
    container,   \* the local `container` of the trial
    v,           \* FilledRandom<Container>::v, one per container shape
    generator,   \* RandomSortedInsert<Container>::generator, one per shape
    duration,    \* the local `duration` of the size loop
    t0,          \* local t0 (t1 lives only inside the step that reads it)
    calls,       \* bench calls started so far
    sizesRun,    \* sizes started so far, over all bench calls
    \* ---- observation (history) variables: written, never read, by the code
    trace,       \* events of the current trial, in order
    cycles,      \* setup/measure cycles completed for the current size
    elapsedLog,  \* t1 - t0 of each trial of the current size
    base,        \* Len(results) when the running bench call started
    regenerated, \* whether the last FilledRandom::make ran std::shuffle
    prevMake,    \* [before, size]: cache sizes left by the last two FilledRandom makes, any shape
    prevCache,   \* Len(v[shape]) just before the last FilledRandom::make
    made,        \* every [shape, size, elems] FilledRandom::make has returned
    undefinedOp, \* the running trial executed c.erase(end())
    initial,     \* contents of the container when the trial's timer started
    genAtStart,  \* generator[shape] when the trial's timer started
    trialLog,    \* every finished trial: configuration, size, initial and final contents
    powBase,     \* r_pow: argument base
    powExp,      \* r_pow: template argument Exp
    powResult    \* r_pow: returned value, or -1 before the call

vars == <<pc, graph, results, cfg, sizes, idx, rep, container, v, generator,
          duration, t0, calls, sizesRun, trace, cycles, elapsedLog,
          base, regenerated, prevMake, prevCache, made, undefinedOp, initial,
          genAtStart, trialLog, powBase, powExp, powResult>>

benchVars == <<pc, graph, results, cfg, sizes, idx, rep, container, v, generator,
               duration, t0, calls, sizesRun, trace, cycles, elapsedLog,
               base, regenerated, prevMake, prevCache, made, undefinedOp, initial,
               genAtStart, trialLog>>

powVars == <<powBase, powExp, powResult>>

-----------------------------------------------------------------------------
(* Bounds of the model *)

MaxSize == 2        \* sizes 0..MaxSize may be declared ...
BigSize == 10       \* ... and one size of two decimal digits
MaxSizes == 2       \* longest declared list of sizes
MaxCalls == 2       \* bench calls per run
MaxSizesRun == 2    \* sizes benchmarked per run, over all calls
MaxStart == 1       \* t0 is one of 0..MaxStart ticks after the epoch
MaxTick == 1        \* t1 is 0..MaxTick ticks after t0
MaxNoisyCalls == 1  \* calls of a run that see the clock advance and garbage in duration
TickNs == 3000000   \* nanoseconds per clock tick
GarbageNs == 5000000 \* an indeterminate value of the uninitialized duration
EngineMod == 1024   \* number of states of the stand-in for std::mt19937
OpCount == 4        \* iterations of Insert::run and Remove::run (1000), scaled to the sizes
MaxVal == 4         \* upper bound of the distribution of RandomSortedInsert
TBits == 8          \* r_pow: width of the unsigned type T
MaxBase == 20       \* r_pow: bases 0..MaxBase
MaxExp == 4         \* r_pow: exponents 0..MaxExp

(* Program constants *)

REPEAT == 2
NsPerMicro == 1000
NsPerMilli == 1000000
DefaultSeed == 5489

Shapes == {"vector", "list", "deque"}
Sizes == (0..MaxSize) \cup {BigSize}

-----------------------------------------------------------------------------
(* std::mt19937, abstracted to a small deterministic generator: a          *)
(* default-constructed engine always starts in the same state, and each    *)
(* draw advances the state.                                                *)

EngineInit == DefaultSeed % EngineMod

EngineNext(g) == (5 * g + 3) % EngineMod

EngineOut(g) == g \div 8

\* std::uniform_int_distribution over 0..(n-1): one draw of the engine
Uniform(g, n) == [val |-> EngineOut(EngineNext(g)) % n, g |-> EngineNext(g)]

-----------------------------------------------------------------------------
(* Sequence helpers (the container operations the policies call) *)

\* std::find_if(begin(c), end(c), v.a == i): position of the first match, Len+1 for end()
FindEq(s, i) ==
    IF \E p \in 1..Len(s) : s[p] = i
    THEN CHOOSE p \in 1..Len(s) : s[p] = i /\ \A q \in 1..(p - 1) : s[q] # i
    ELSE Len(s) + 1

\* std::find_if(begin(c), end(c), v.a >= val)
FindGe(s, val) ==
    IF \E p \in 1..Len(s) : s[p] >= val
    THEN CHOOSE p \in 1..Len(s) : s[p] >= val /\ \A q \in 1..(p - 1) : s[q] < val
    ELSE Len(s) + 1

\* c.insert(it, x): x is placed before position p (p = Len+1: at the end)
InsertAt(s, p, x) == SubSeq(s, 1, p - 1) \o <<x>> \o SubSeq(s, p, Len(s))

\* c.erase(it) for a dereferenceable iterator
EraseAt(s, p) == SubSeq(s, 1, p - 1) \o SubSeq(s, p + 1, Len(s))

\* Container(size): size value-initialized elements (a = 0)
Zeros(n) == [i \in 1..n |-> 0]

\* std::iota(begin(v), end(v), 0)
Iota(n) == [i \in 1..n |-> i - 1]

Swap(s, i, j) == [s EXCEPT ![i] = s[j], ![j] = s[i]]

-----------------------------------------------------------------------------
(* Setup policies *)

\* One step of std::shuffle: element i is swapped with one drawn from 1..i
ShuffleStep(st, i) ==
    LET u == Uniform(st.g, i)
    IN  [s |-> Swap(st.s, i, u.val + 1), g |-> u.g]

\* The loop of std::shuffle up to and including element n
RECURSIVE ShuffleLoop(_, _)
ShuffleLoop(st, n) ==
    IF n < 2 THEN st ELSE ShuffleStep(ShuffleLoop(st, n - 1), n)

\* std::shuffle(begin(s), end(s), engine in state g)
Shuffle(s, g) == ShuffleLoop([s |-> s, g |-> g], Len(s)).s

\* FilledRandom::make, always shuffling what the cache holds (faulty variant)
FilledRandomMake_Reshuffle(cache, size) ==
    LET nv == Shuffle(IF Len(cache) # size THEN Iota(size) ELSE cache, EngineInit)
    IN  [v |-> nv, regen |-> Len(cache) # size, elems |-> [i \in 1..Len(nv) |-> nv[i]]]

\* FilledRandom::make, regenerating on every call (faulty variant)
FilledRandomMake_Always(cache, size) ==
    LET nv == Shuffle(Iota(size), EngineInit)
    IN  [v |-> nv, regen |-> TRUE, elems |-> [i \in 1..Len(nv) |-> nv[i]]]

\* FilledRandom::make, resizing without std::iota (faulty variant)
FilledRandomMake_NoIota(cache, size) ==
    LET regen == Len(cache) # size
        nv == IF regen THEN Shuffle(Zeros(size), EngineInit) ELSE cache
    IN  [v |-> nv, regen |-> regen, elems |-> [i \in 1..Len(nv) |-> nv[i]]]

\* FilledRandom<Container>::make(size) on the cache v of that Container:
\* the new cache, whether it was regenerated, and the elements pushed back
FilledRandomMake(cache, size) ==
    LET regen == Len(cache) # size
        nv == IF regen THEN Shuffle(Iota(size), EngineInit) ELSE cache
    IN  [v |-> nv, regen |-> regen, elems |-> [i \in 1..Len(nv) |-> nv[i]]]

\* CreatePolicy<Container>::make(size)
CreateMake(create, cache, size) ==
    CASE create = "Empty" ->
           [v |-> cache, regen |-> FALSE, kind |-> "value", elems |-> <<>>]
      [] create = "Filled" ->
           [v |-> cache, regen |-> FALSE, kind |-> "value", elems |-> Zeros(size)]
      [] create = "FilledRandom" ->
           LET m == FilledRandomMake(cache, size)
           IN  [v |-> m.v, regen |-> m.regen, kind |-> "value", elems |-> m.elems]
      [] create = "SmartFilled" ->
           [v |-> cache, regen |-> FALSE, kind |-> "ptr", elems |-> Zeros(size)]

-----------------------------------------------------------------------------
(* Operation policies.  A trial state is [kind, elems, g, crashed, ub]: the *)
(* container, the generator of RandomSortedInsert<Container>, whether the  *)
(* process has aborted and whether an operation with undefined behaviour   *)
(* has been executed.  A policy maps a trial state to the set of trial     *)
(* states it can leave.                                                    *)

\* The trial state bench hands to run<TestPolicy...>
TrialState(c, g) ==
    [kind |-> c.kind, elems |-> c.elems, g |-> g, crashed |-> FALSE,
     ub |-> FALSE, log |-> <<>>]

\* FillBack::run: std::fill_n(std::back_inserter(c), size, value)
FillBackRun(st, size) == {[st EXCEPT !.elems = st.elems \o Zeros(size)]}

\* FillFront::run: size insertions of value at the front
FillFrontRun(st, size) == {[st EXCEPT !.elems = Zeros(size) \o st.elems]}

\* Find::run: size searches, results discarded
FindRun(st, size) ==
    IF \A i \in 0..(size - 1) : FindEq(st.elems, i) \in 1..(Len(st.elems) + 1)
    THEN {st} ELSE {}

\* One iteration of Insert::run
InsertStep(st, size, i) ==
    [st EXCEPT !.elems = InsertAt(st.elems, FindEq(st.elems, i), size + i)]

\* The first n iterations of Insert::run
RECURSIVE InsertLoop(_, _, _)
InsertLoop(st, size, n) ==
    IF n = 0 THEN st ELSE InsertStep(InsertLoop(st, size, n - 1), size, n - 1)

\* Insert::run
InsertRun(st, size) == {InsertLoop(st, size, OpCount)}

\* c.erase(end()): undefined behaviour.  The builds at hand leave the
\* container as it is, drop its last element, or abort.
EraseEnd(st) ==
    {[st EXCEPT !.ub = TRUE], [st EXCEPT !.ub = TRUE, !.crashed = TRUE]}
    \cup (IF Len(st.elems) > 0
          THEN {[st EXCEPT !.ub = TRUE,
                           !.elems = SubSeq(st.elems, 1, Len(st.elems) - 1)]}
          ELSE {})

\* One iteration of Remove::run erasing the element after the one found
\* (faulty variant)
RemoveStep_Next(st, i) ==
    LET p == FindEq(st.elems, i) + 1
    IN  IF st.crashed THEN {st}
        ELSE IF p <= Len(st.elems)
        THEN {[st EXCEPT !.elems = EraseAt(st.elems, p)]}
        ELSE EraseEnd(st)

\* One iteration of Remove::run: find_if, then erase whatever it returned
RemoveStep(st, i) ==
    LET p == FindEq(st.elems, i)
    IN  IF st.crashed THEN {st}
        ELSE IF p <= Len(st.elems)
        THEN {[st EXCEPT !.elems = EraseAt(st.elems, p)]}
        ELSE EraseEnd(st)

\* The first n iterations of Remove::run, from each trial state of S
RECURSIVE RemoveLoop(_, _)
RemoveLoop(S, n) ==
    IF n = 0 THEN S
    ELSE UNION {RemoveStep(st, n - 1) : st \in RemoveLoop(S, n - 1)}

\* Remove::run
RemoveRun(st, size) == RemoveLoop({st}, OpCount)

\* Sort::run (std::sort, and list::sort for the list)
SortRun(st, size) ==
    {[st EXCEPT !.elems = SortSeq(st.elems, LAMBDA x, y : x < y)]}

\* SmartDelete::run: c.reset()
SmartDeleteRun(st, size) == {[st EXCEPT !.kind = "null", !.elems = <<>>]}

\* distribution(generator): one value of 0..MaxVal, the generator advanced
Draw(g) == Uniform(g, MaxVal + 1)

\* One iteration of RandomSortedInsert::run, inserting at the front (faulty variant)
SortedInsertStep_Front(st) ==
    LET d == Draw(st.g)
    IN  [st EXCEPT !.elems = InsertAt(st.elems, 1, d.val), !.g = d.g]

\* One iteration of RandomSortedInsert::run
SortedInsertStep(st) ==
    LET d == Draw(st.g)
    IN  [st EXCEPT !.elems = InsertAt(st.elems, FindGe(st.elems, d.val), d.val),
                   !.g = d.g]

\* The first n iterations of RandomSortedInsert::run
RECURSIVE SortedInsertLoop(_, _)
SortedInsertLoop(st, n) ==
    IF n = 0 THEN st ELSE SortedInsertStep(SortedInsertLoop(st, n - 1))

\* RandomSortedInsert::run
RandomSortedInsertRun(st, size) == {SortedInsertLoop(st, size)}

\* Test<Container>::run(container, size), for an aborted process nothing
PolicyRun(test, st, size) ==
    IF st.crashed THEN {st}
    ELSE CASE test = "NoOp" -> {st}
           [] test = "ReserveSize" -> {st}
           [] test = "FillBack" -> FillBackRun(st, size)
           [] test = "FillFront" -> FillFrontRun(st, size)
           [] test = "Find" -> FindRun(st, size)
           [] test = "Insert" -> InsertRun(st, size)
           [] test = "Remove" -> RemoveRun(st, size)
           [] test = "Sort" -> SortRun(st, size)
           [] test = "SmartDelete" -> SmartDeleteRun(st, size)
           [] test = "RandomSortedInsert" -> RandomSortedInsertRun(st, size)

\* The variadic runner, Rest before Test (faulty variant)
RECURSIVE RunPack_Reversed(_, _, _)
RunPack_Reversed(tests, S, size) ==
    IF tests = <<>> THEN S
    ELSE LET rest == RunPack_Reversed(Tail(tests), S, size)
         IN  UNION {{[o EXCEPT !.log = Append(o.log, Head(tests))]
                        : o \in PolicyRun(Head(tests), st, size)} : st \in rest}

\* run<Test, Rest...>(container, size): Test::run, then run<Rest...>;
\* log lists the policies in the order they ran
RECURSIVE RunPack(_, _, _)
RunPack(tests, S, size) ==
    IF tests = <<>> THEN S
    ELSE LET first == UNION {{[o EXCEPT !.log = Append(o.log, Head(tests))]
                                 : o \in PolicyRun(Head(tests), st, size)} : st \in S}
         IN  RunPack(Tail(tests), first, size)

-----------------------------------------------------------------------------
(* The benchmark suite bench<T>(): the configurations it declares *)

Config(group, label, shape, unit, create, tests) ==
    [group |-> group, label |-> label, shape |-> shape, unit |-> unit,
     create |-> create, tests |-> tests]

\* The three calls bench<std::vector<T>, ...>("vector", sizes), list, deque
PerShape(group, unit, create, tests) ==
    {Config(group, sh, sh, unit, create, tests) : sh \in Shapes}

Declared ==
    {Config("fill_back", "vector_pre", "vector", "us", "Empty",
            <<"ReserveSize", "FillBack">>)}
    \cup PerShape("fill_back", "us", "Empty", <<"FillBack">>)
    \cup PerShape("fill_front", "ms", "Empty", <<"FillFront">>)
    \cup PerShape("linear_search", "us", "FilledRandom", <<"Find">>)
    \cup PerShape("random_insert", "ms", "FilledRandom", <<"Insert">>)
    \cup PerShape("random_remove", "ms", "FilledRandom", <<"Remove">>)
    \cup PerShape("sort", "ms", "FilledRandom", <<"Sort">>)
    \cup PerShape("destruction", "us", "SmartFilled", <<"SmartDelete">>)
    \cup PerShape("number_crunching", "ms", "Empty", <<"RandomSortedInsert">>)

Groups == {c.group : c \in Declared}

\* The lists of sizes a bench call may be given
SizeLists == UNION {[1..n -> Sizes] : n \in 1..MaxSizes}

NoConfig == Config("", "", "", "", "", <<>>)

NoContainer == [kind |-> "none", elems |-> <<>>]

\* `container` after the closing brace of the body of the REPEAT loop
EndOfTrial == NoContainer

-----------------------------------------------------------------------------
(* Conversions *)

DigitChars == <<"0", "1", "2", "3", "4", "5", "6", "7", "8", "9">>

\* std::to_string(size), most significant digit last (faulty variant)
RECURSIVE to_string_Reversed(_)
to_string_Reversed(n) ==
    IF n < 10 THEN <<DigitChars[n + 1]>>
    ELSE <<DigitChars[(n % 10) + 1]>> \o to_string_Reversed(n \div 10)

\* std::to_string(size) for size >= 0: the decimal digits as characters
RECURSIVE to_string(_)
to_string(n) ==
    IF n < 10 THEN <<DigitChars[n + 1]>>
    ELSE to_string(n \div 10) \o <<DigitChars[(n % 10) + 1]>>

\* atoi on a string of digits (numeric_cmp reads the group labels with it)
RECURSIVE Atoi(_)
Atoi(str) ==
    IF str = <<>> THEN 0
    ELSE LET d == CHOOSE k \in 0..9 : DigitChars[k + 1] = str[Len(str)]
         IN  10 * Atoi(SubSeq(str, 1, Len(str) - 1)) + d

\* nanoseconds per tick of DurationUnit
UnitNs(unit) == IF unit = "us" THEN NsPerMicro ELSE NsPerMilli

\* std::chrono::duration_cast<DurationUnit>(d).count(), d in nanoseconds
DurationCast(d, unit) == d \div UnitNs(unit)

\* The value bench passes to new_result
EmitValue(d, unit) == DurationCast(d, unit) \div REPEAT

\* Whether the running bench call is one in which the model explores the
\* clock and the indeterminate value (in the others both read as zero)
Noisy == calls <= MaxNoisyCalls

\* The values an uninitialized Clock::duration can hold: zero, what the
\* previous iteration of the size loop left in its storage, anything else
Uninitialized ==
    {0} \cup (IF idx > 1 THEN {duration} ELSE {})
        \cup (IF Noisy THEN {GarbageNs} ELSE {})

\* The readings Clock::now() can return for t0, and for t1 given t0
StartReadings == {k * TickNs : k \in 0..(IF Noisy THEN MaxStart ELSE 0)}

EndReadings(start) ==
    {start + k * TickNs : k \in 0..(IF Noisy THEN MaxTick ELSE 0)}

-----------------------------------------------------------------------------
(* Actions *)

\* graphs::new_graph; the locals of the bench call that returned are gone
NewGraph(g) ==
    /\ pc = "idle"
    /\ calls < MaxCalls
    /\ g # graph
    /\ graph' = g
    /\ results' = <<>>
    /\ cfg' = NoConfig
    /\ sizes' = <<>>
    /\ idx' = 1
    /\ base' = 0
    /\ elapsedLog' = <<>>
    /\ cycles' = 0
    /\ UNCHANGED <<pc, rep, container, v, generator, duration, t0, calls,
                   sizesRun, trace, regenerated, prevMake, prevCache, made,
                   undefinedOp, initial, genAtStart, trialLog, powVars>>

\* bench<Container, DurationUnit, CreatePolicy, TestPolicy...>(type, sizes) is entered
StartBench(c, sz) ==
    /\ pc = "idle"
    /\ graph # "null"
    /\ c.group = graph
    /\ calls < MaxCalls
    /\ sizesRun + Len(sz) <= MaxSizesRun
    /\ cfg' = c
    /\ sizes' = sz
    /\ idx' = 1
    /\ calls' = calls + 1
    /\ base' = Len(results)
    /\ elapsedLog' = <<>>
    /\ cycles' = 0
    /\ pc' = "size"
    /\ UNCHANGED <<graph, results, rep, container, v, generator, duration,
                   t0, sizesRun, trace, regenerated, prevMake, prevCache, made,
                   undefinedOp, initial, genAtStart, trialLog, powVars>>

\* The body of the size loop begins: Clock::duration duration;
BeginSize ==
    /\ pc = "size"
    /\ \E d \in Uninitialized : duration' = d
    /\ rep' = 0
    /\ cycles' = 0
    /\ elapsedLog' = <<>>
    /\ sizesRun' = sizesRun + 1
    /\ pc' = "make"
    /\ UNCHANGED <<graph, results, cfg, sizes, idx, container, v, generator,
                   t0, calls, trace, base, regenerated, prevMake, prevCache,
                   made, undefinedOp, initial, genAtStart, trialLog, powVars>>

\* auto container = CreatePolicy<Container>::make(size);
Make ==
    /\ pc = "make"
    /\ LET m == CreateMake(cfg.create, v[cfg.shape], sizes[idx])
           fr == cfg.create = "FilledRandom"
       IN  /\ container' = [kind |-> m.kind, elems |-> m.elems]
           /\ v' = [v EXCEPT ![cfg.shape] = m.v]
           /\ regenerated' = m.regen
           /\ prevCache' = IF fr THEN Len(v[cfg.shape]) ELSE prevCache
           /\ prevMake' = IF fr THEN [before |-> prevMake.size, size |-> Len(m.v)]
                          ELSE prevMake
           /\ made' = IF fr
                      THEN made \cup {[shape |-> cfg.shape, size |-> sizes[idx],
                                       elems |-> m.elems]}
                      ELSE made
    /\ trace' = <<"make">>
    /\ undefinedOp' = FALSE
    /\ pc' = "t0"
    /\ UNCHANGED <<graph, results, cfg, sizes, idx, rep, generator, duration,
                   t0, calls, sizesRun, cycles, elapsedLog, base, initial,
                   genAtStart, trialLog, powVars>>

\* Clock::time_point t0 = Clock::now();
T0 ==
    /\ pc = "t0"
    /\ \E r \in StartReadings : t0' = r
    /\ trace' = Append(trace, "t0")
    /\ initial' = container
    /\ genAtStart' = generator[cfg.shape]
    /\ pc' = "run"
    /\ UNCHANGED <<graph, results, cfg, sizes, idx, rep, container, v, generator,
                   duration, calls, sizesRun, cycles, elapsedLog, base,
                   regenerated, prevMake, prevCache, made, undefinedOp, trialLog,
                   powVars>>

\* run<TestPolicy...>(container, size);
RunTests ==
    /\ pc = "run"
    /\ \E o \in RunPack(cfg.tests, {TrialState(container, generator[cfg.shape])},
                        sizes[idx]) :
          /\ container' = [kind |-> o.kind, elems |-> o.elems]
          /\ generator' = [generator EXCEPT ![cfg.shape] = o.g]
          /\ undefinedOp' = o.ub
          /\ trace' = trace \o o.log
          /\ pc' = IF o.crashed THEN "crashed" ELSE "t1"
    /\ UNCHANGED <<graph, results, cfg, sizes, idx, rep, v, duration, t0,
                   calls, sizesRun, cycles, elapsedLog, base, regenerated,
                   prevMake, prevCache, made, initial, genAtStart, trialLog,
                   powVars>>

\* Clock::time_point t1 = Clock::now(); duration += t1 - t0; and the end of
\* the body of the REPEAT loop, where container, t0 and t1 are destroyed
T1 ==
    /\ pc = "t1"
    /\ \E t1 \in EndReadings(t0) :
          /\ duration' = duration + (t1 - t0)
          /\ elapsedLog' = Append(elapsedLog, t1 - t0)
    /\ t0' = 0
    /\ trace' = Append(trace, "t1")
    /\ cycles' = cycles + 1
    /\ trialLog' = trialLog \cup
          {[cfg |-> cfg, size |-> sizes[idx], init |-> initial,
            final |-> container]}
    /\ container' = EndOfTrial
    /\ rep' = rep + 1
    /\ pc' = IF rep + 1 < REPEAT THEN "make" ELSE "emit"
    /\ UNCHANGED <<graph, results, cfg, sizes, idx, v, generator, calls,
                   sizesRun, base, regenerated, prevMake, prevCache, made,
                   undefinedOp, initial, genAtStart, powVars>>

\* graphs::new_result(type, std::to_string(size), duration_cast(duration).count() / REPEAT),
\* the step of the size loop and, after the last size, the return of bench
Emit ==
    /\ pc = "emit"
    /\ results' = Append(results,
                         [serie |-> cfg.label, group |-> to_string(sizes[idx]),
                          value |-> EmitValue(duration, cfg.unit)])
    /\ idx' = idx + 1
    /\ trace' = <<>>
    /\ IF idx < Len(sizes)
       THEN pc' = "size" /\ UNCHANGED duration
       ELSE pc' = "idle" /\ duration' = 0
    /\ UNCHANGED <<graph, cfg, sizes, rep, container, v, generator, t0,
                   calls, sizesRun, cycles, elapsedLog, base, regenerated,
                   prevMake, prevCache, made, undefinedOp, initial, genAtStart,
                   trialLog, powVars>>

-----------------------------------------------------------------------------
(* r_pow.hpp, instantiated for an unsigned integer type T of TBits bits *)

\* T's multiplication: the product modulo 2^TBits
MulT(x, y) == (x * y) % (2 ^ TBits)

\* impl::r_pow<T, Exp>::op, the base case returning 0 (faulty variant)
RECURSIVE op_ZeroBase(_, _)
op_ZeroBase(Exp, b) ==
    IF Exp = 0 THEN 0 ELSE MulT(op_ZeroBase(Exp - 1, b), b)

\* impl::r_pow<T, Exp>::op(base)
RECURSIVE op(_, _)
op(Exp, b) ==
    IF Exp = 0 THEN 1 ELSE MulT(op(Exp - 1, b), b)

\* r_pow<Exp>(base)
r_pow(Exp, b) == op(Exp, b)

\* A call r_pow<powExp>(powBase) returns
CallRPow ==
    /\ powResult = -1
    /\ powResult' = r_pow(powExp, powBase)
    /\ UNCHANGED <<powBase, powExp, benchVars>>

InitBench ==
    /\ pc = "idle"
    /\ graph = "null"
    /\ results = <<>>
    /\ cfg = NoConfig
    /\ sizes = <<>>
    /\ idx = 1
    /\ rep = 0
    /\ container = NoContainer
    /\ v = [sh \in Shapes |-> <<>>]
    /\ generator = [sh \in Shapes |-> EngineInit]
    /\ duration = 0
    /\ t0 = 0
    /\ calls = 0
    /\ sizesRun = 0
    /\ trace = <<>>
    /\ cycles = 0
    /\ elapsedLog = <<>>
    /\ base = 0
    /\ regenerated = FALSE
    /\ prevMake = [before |-> -1, size |-> -1]
    /\ prevCache = 0
    /\ made = {}
    /\ undefinedOp = FALSE
    /\ initial = NoContainer
    /\ genAtStart = EngineInit
    /\ trialLog = {}

\* The benchmark program: main never calls r_pow
Init ==
    /\ InitBench
    /\ powBase = 0
    /\ powExp = 0
    /\ powResult = -1

Next ==
    \/ \E g \in Groups : NewGraph(g)
    \/ \E c \in Declared, sz \in SizeLists : StartBench(c, sz)
    \/ BeginSize
    \/ Make
    \/ T0
    \/ RunTests
    \/ T1
    \/ Emit

Spec == Init /\ [][Next]_vars

\* The test program of r_pow: one call, for each base and exponent
InitPow ==
    /\ InitBench
    /\ powBase \in 0..MaxBase
    /\ powExp \in 0..MaxExp
    /\ powResult = -1

NextPow == CallRPow

SpecPow == InitPow /\ [][NextPow]_vars

-----------------------------------------------------------------------------
(* Properties *)

\* The samples the running (or last) bench call has emitted
Emitted == SubSeq(results, base + 1, Len(results))

IsPermutation(s, n) ==
    /\ Len(s) = n
    /\ \A x \in 0..(n - 1) : Cardinality({p \in 1..n : s[p] = x}) = 1

IsSorted(s) == \A p \in 1..(Len(s) - 1) : s[p] <= s[p + 1]

IsPrefix(s, t) == Len(s) <= Len(t) /\ s = SubSeq(t, 1, Len(s))

\* A string is the decimal numeral of n: digits only, no leading zero, value n
IsDecimalOf(str, n) ==
    /\ Len(str) >= 1
    /\ \A k \in 1..Len(str) : \E d \in 1..10 : DigitChars[d] = str[k]
    /\ (Len(str) > 1 => str[1] # "0")
    /\ Atoi(str) = n

\* C1: the value bench passes to new_result is (trial1_elapsed +
\* trial2_elapsed) / 2 in the configuration's DurationUnit, and depends on
\* nothing but the two elapsed times.
C1_ValueIsMeanOfTrials ==
    (pc \in {"idle", "size"} /\ Len(elapsedLog) = REPEAT /\ Len(Emitted) > 0)
        => results[Len(results)].value =
              DurationCast((elapsedLog[1] + elapsedLog[2]) \div 2, cfg.unit)

\* C2: one call of bench emits exactly one sample per declared size, in
\* declaration order, with series = the label and group = the size as a
\* decimal string; none per repetition, none for an undeclared size.
C2_OneSamplePerSize ==
    cfg # NoConfig =>
        /\ Len(Emitted) = idx - 1
        /\ Len(Emitted) <= Len(sizes)
        /\ pc = "idle" => Len(Emitted) = Len(sizes)
        /\ \A k \in 1..Len(Emitted) :
              /\ Emitted[k].serie = cfg.label
              /\ IsDecimalOf(Emitted[k].group, sizes[k])

C2_Witness ==
    /\ pc = "idle"
    /\ sizes = <<BigSize, 2>>
    /\ Len(Emitted) = 2
    /\ Emitted[1].group = <<"1", "0">>
    /\ Emitted[2].group = <<"2">>

\* C3: in every trial make(size) completes, then t0 is taken, then every
\* composed policy runs once in declared order, then t1 is taken; and the
\* cycle is performed exactly REPEAT times for each size.
C3_TrialOrder ==
    LET head == <<"make", "t0">>
        whole == head \o cfg.tests \o <<"t1">>
    IN  /\ pc = "t0" => trace = <<"make">>
        /\ pc = "run" => trace = head
        /\ pc = "t1" => trace = head \o cfg.tests
        /\ pc = "crashed" => IsPrefix(trace, head \o cfg.tests) /\ Len(trace) > 2
        /\ (pc \in {"make", "emit"} /\ rep > 0) => trace = whole
        /\ pc \in {"make", "t0", "run", "t1"} => cycles = rep /\ cycles < REPEAT
        /\ pc = "emit" => cycles = REPEAT
        /\ Len(Emitted) > 0 /\ pc \in {"size", "idle"} => cycles = REPEAT

C3_Witness ==
    /\ pc = "emit"
    /\ cfg.tests = <<"ReserveSize", "FillBack">>
    /\ trace = <<"make", "t0", "ReserveSize", "FillBack", "t1">>
    /\ cycles = REPEAT

\* C4 (as claimed): a permutation is generated only when the requested size
\* differs from the size of the permutation cached process-wide, i.e. the one
\* the previous FilledRandom make, on whatever shape, built or reused.
C4_ProcessWideCache ==
    (pc = "t0" /\ cfg.create = "FilledRandom" /\ regenerated)
        => prevMake.before # sizes[idx]

\* C4 (amended): the cache is one per container type; make(size) generates
\* a permutation exactly when size differs from the size of the permutation
\* cached for that container type.
C4_PerContainerCache ==
    (pc = "t0" /\ cfg.create = "FilledRandom")
        => (regenerated <=> prevCache # sizes[idx])

C4_Witness ==
    /\ pc = "t0"
    /\ cfg.create = "FilledRandom"
    /\ regenerated
    /\ prevMake.before = sizes[idx]
    /\ sizes[idx] > 1

\* C5: the container FilledRandom make(n) returns holds exactly n elements
\* whose identity fields are a permutation of 0..n-1, also when the cache
\* was regenerated after another size or is being reused.
C5_MakeIsPermutation ==
    (pc = "t0" /\ cfg.create = "FilledRandom")
        => /\ container.kind = "value"
           /\ IsPermutation(container.elems, sizes[idx])
           /\ IsPermutation(v[cfg.shape], sizes[idx])

C5_Witness ==
    /\ pc = "t0"
    /\ cfg.create = "FilledRandom"
    /\ regenerated
    /\ prevCache = BigSize
    /\ sizes[idx] = 2

\* C6: for a fixed size, FilledRandom make fills every shape with the
\* identical sequence of identity values, in every repetition and order.
C6_SameSequenceForAllShapes ==
    \A a, b \in made : a.size = b.size => a.elems = b.elems

C6_Witness ==
    \E a, b \in made :
        /\ a.shape # b.shape
        /\ a.size = BigSize
        /\ b.size = BigSize
        /\ a.elems # Iota(BigSize)

\* C7: nothing but the cached permutation carries over; two
\* trials of the same configuration and size perform the same work on the
\* same initial contents.
C7_TrialsAreIndependent ==
    \A a, b \in trialLog :
        (a.cfg = b.cfg /\ a.size = b.size)
            => (a.init = b.init /\ a.final = b.final)

\* C8: a step of Remove::run whose identity i is absent is a no-op and a
\* defined operation: after the run the container holds what it held
\* without the first element of each identity 0..OpCount-1.
C8_AbsentIsNoOp ==
    (pc \in {"t1", "crashed"} /\ cfg.tests = <<"Remove">>)
        => /\ pc = "t1"
           /\ ~undefinedOp
           /\ container.elems = SelectSeq(initial.elems, LAMBDA x : x >= OpCount)

\* base raised to the power e over the integers, with base^0 = 1
RECURSIVE Power(_, _)
Power(b, e) == IF e = 0 THEN 1 ELSE b * Power(b, e - 1)

\* C9 (as claimed): r_pow<Exp>(base) is base raised to the power Exp.
C9_IsPower ==
    powResult # -1 => powResult = Power(powBase, powExp)

\* C9 (amended): r_pow<Exp>(base) is the product of Exp copies of base in
\* T's arithmetic: base^Exp modulo 2^TBits, so base^Exp itself whenever
\* that is representable in T; 1 for Exp = 0 and base for Exp = 1.
C9_IsPowerInT ==
    powResult # -1 =>
        /\ powResult = (Power(powBase, powExp)) % (2 ^ TBits)
        /\ Power(powBase, powExp) < 2 ^ TBits => powResult = Power(powBase, powExp)
        /\ powExp = 0 => powResult = 1
        /\ powExp = 1 => powResult = powBase

C9_Witness ==
    /\ powBase = 5
    /\ powExp = 3
    /\ powResult = 125

\* C10: RandomSortedInsert on an empty container keeps it sorted: after each
\* insertion adjacent pairs are ordered, the new element stands immediately
\* before the first element >= the drawn value (at the end when there is
\* none), and after the run the container holds exactly size elements.
C10_SortedInsertKeepsSorted ==
    (pc = "t1" /\ cfg.tests = <<"RandomSortedInsert">> /\ initial.elems = <<>>)
        => LET start == TrialState(initial, genAtStart)
               After(k) == SortedInsertLoop(start, k)
           IN  /\ container.elems = After(sizes[idx]).elems
               /\ Len(container.elems) = sizes[idx]
               /\ \A k \in 1..sizes[idx] :
                     LET old == After(k - 1).elems
                         new == After(k).elems
                         val == Draw(After(k - 1).g).val
                     IN  /\ IsSorted(new)
                         /\ Len(new) = k
                         /\ \E p \in 1..k :
                               /\ new = InsertAt(old, p, val)
                               /\ \A q \in 1..(p - 1) : old[q] < val
                               /\ p <= Len(old) => old[p] >= val

C10_Witness ==
    /\ pc = "t1"
    /\ cfg.tests = <<"RandomSortedInsert">>
    /\ sizes[idx] = BigSize
    /\ \E p \in 1..(BigSize - 1) : container.elems[p] = container.elems[p + 1]
    /\ container.elems[1] # container.elems[BigSize]

\* C11: in the configurations declared with Remove (setup FilledRandom,
\* every size at least the number of steps), each search for identity i in
\* 0..OpCount-1 finds an element, so erase is never given the end iterator;
\* the trial removes exactly the identities 0..OpCount-1 and leaves
\* size - OpCount elements.
C11_DeclaredRemoveNeverErasesEnd ==
    (/\ pc \in {"run", "t1", "crashed"}
     /\ cfg.create = "FilledRandom"
     /\ cfg.tests = <<"Remove">>
     /\ sizes[idx] >= OpCount)
        => LET start == TrialState(initial, genAtStart)
           IN  /\ pc # "crashed"
               /\ \A k \in 0..(OpCount - 1) :
                     \A st \in RemoveLoop({start}, k) :
                        /\ ~st.ub
                        /\ ~st.crashed
                        /\ FindEq(st.elems, k) <= Len(st.elems)
               /\ pc = "t1" =>
                     /\ ~undefinedOp
                     /\ Len(container.elems) = sizes[idx] - OpCount
                     /\ container.elems =
                           SelectSeq(initial.elems, LAMBDA x : x >= OpCount)
                     /\ \A x \in 0..(sizes[idx] - 1) :
                           (\E q \in 1..Len(container.elems) :
                               container.elems[q] = x) <=> x >= OpCount

C11_Witness ==
    /\ pc = "t1"
    /\ cfg.create = "FilledRandom"
    /\ cfg.tests = <<"Remove">>
    /\ sizes[idx] = BigSize
    /\ rep = 1
    /\ Len(container.elems) = BigSize - OpCount
    /\ initial.elems # Iota(BigSize)

=============================================================================
